---- MODULE Spec2Model ----
(***************************************************************************)
(* Model of the MimirCodeUI batch pipelines: code_documentation.py,        *)
(* deep_code_documentation.py and code_analyzer.py.                        *)
(*                                                                         *)
(* Texts and paths are sequences of character codes.  The chunker is an    *)
(* operator computed as the Python loop computes it; a run of one of the   *)
(* three scripts is a state machine whose steps are the calls that reach   *)
(* outside the process (directory scan, file read, inference request,      *)
(* document write).                                                        *)
(***************************************************************************)
EXTENDS Integers, Sequences, FiniteSets, TLC

\* ---------------------------------------------------------------- bounds
MaxLen == 5
MaxBudget == 4

\* ------------------------------------------------------------ characters
LF == 10
CR == 13
LetterA == 97

\* the characters str.splitlines() treats as line boundaries
LineBreaks == {10, 11, 12, 13, 28, 29, 30, 133, 8232, 8233}

Chars == {LetterA, LF, CR}

Texts == UNION {[1..n -> Chars] : n \in 0..MaxLen}

\* "".join(parts)
RECURSIVE Join(_)
Join(parts) ==
    IF parts = <<>> THEN <<>> ELSE Head(parts) \o Join(Tail(parts))

\* content.splitlines(keepends=True): "\r\n" is one terminator, every other
\* line-boundary character is a terminator of its own, a last line without a
\* terminator is still a line, and the empty string has no lines.
RECURSIVE SplitFrom(_, _, _, _)
SplitFrom(s, i, cur, acc) ==
    IF i > Len(s)
    THEN IF cur = <<>> THEN acc ELSE Append(acc, cur)
    ELSE IF s[i] = CR /\ i < Len(s) /\ s[i + 1] = LF
         THEN SplitFrom(s, i + 2, <<>>, Append(acc, cur \o <<CR, LF>>))
         ELSE IF s[i] \in LineBreaks
              THEN SplitFrom(s, i + 1, <<>>, Append(acc, cur \o <<s[i]>>))
              ELSE SplitFrom(s, i + 1, cur \o <<s[i]>>, acc)

splitlines(s) == SplitFrom(s, 1, <<>>, <<>>)

\* the test of the chunker's loop: close the buffer before this line?
ShouldCloseNoLine(current_length, line_length, chunk_size, current_chunk_lines) ==
    current_length > chunk_size /\ current_chunk_lines # <<>>

ShouldCloseAtBudget(current_length, line_length, chunk_size, current_chunk_lines) ==
    current_length + line_length >= chunk_size /\ current_chunk_lines # <<>>

ShouldCloseInverted(current_length, line_length, chunk_size, current_chunk_lines) ==
    current_length + line_length < chunk_size /\ current_chunk_lines # <<>>

ShouldClose(current_length, line_length, chunk_size, current_chunk_lines) ==
    current_length + line_length > chunk_size /\ current_chunk_lines # <<>>

\* the flush after the loop
FinalFlushNone(chunks, current_chunk_lines) == chunks

FinalFlush(chunks, current_chunk_lines) ==
    IF current_chunk_lines # <<>>
    THEN Append(chunks, Join(current_chunk_lines))
    ELSE chunks

\* the for loop of chunk_content over lines[i..]
RECURSIVE ChunkLoop(_, _, _, _, _, _)
ChunkLoop(lines, i, chunk_size, chunks, current_chunk_lines, current_length) ==
    IF i > Len(lines)
    THEN FinalFlush(chunks, current_chunk_lines)
    ELSE IF ShouldClose(current_length, Len(lines[i]), chunk_size, current_chunk_lines)
         THEN ChunkLoop(lines, i + 1, chunk_size,
                        Append(chunks, Join(current_chunk_lines)),
                        <<lines[i]>>, Len(lines[i]))
         ELSE ChunkLoop(lines, i + 1, chunk_size, chunks,
                        Append(current_chunk_lines, lines[i]),
                        current_length + Len(lines[i]))

chunk_content(content, chunk_size) ==
    IF content = <<>>
    THEN <<>>
    ELSE ChunkLoop(splitlines(content), 1, chunk_size, <<>>, <<>>, 0)


\* ----------------------------------------------------------------- paths
\* the relative paths a directory scan can return: "a.py", "B.py", "a.js"
PathLowerA == <<97, 46, 112, 121>>
PathUpperB == <<66, 46, 112, 121>>
PathScript == <<97, 46, 106, 115>>

Paths == {PathLowerA, PathUpperB, PathScript}

Dot == 46
Slash == 47

\* str.lower() on one character and on a string
LowerChar(c) == IF c \in 65..90 THEN c + 32 ELSE c

lower(s) == [i \in 1..Len(s) |-> LowerChar(s[i])]

\* the index of the last occurrence of c in s, 0 when there is none
LastIndexOf(s, c) ==
    IF \E i \in 1..Len(s) : s[i] = c
    THEN CHOOSE i \in 1..Len(s) : s[i] = c /\ \A j \in (i + 1)..Len(s) : s[j] # c
    ELSE 0

\* os.path.basename / os.path.dirname of a relative path
basename(p) == SubSeq(p, LastIndexOf(p, Slash) + 1, Len(p))

dirname(p) ==
    IF LastIndexOf(p, Slash) = 0 THEN <<>> ELSE SubSeq(p, 1, LastIndexOf(p, Slash) - 1)

\* os.path.splitext: the extension starts at the last dot, unless that dot
\* is the first character of the name
splitext(name) ==
    IF LastIndexOf(name, Dot) > 1
    THEN <<SubSeq(name, 1, LastIndexOf(name, Dot) - 1),
           SubSeq(name, LastIndexOf(name, Dot), Len(name))>>
    ELSE <<name, <<>>>>

\* SUPPORTED_EXTENSIONS, restricted to the extensions of Paths
\* (".py" -> "python", ".js" -> "javascript"), and get_file_type's default
\* "unknown"
get_file_type(extension) ==
    IF lower(extension) = <<46, 112, 121>>
    THEN <<112, 121, 116, 104, 111, 110>>
    ELSE IF lower(extension) = <<46, 106, 115>>
         THEN <<106, 97, 118, 97, 115, 99, 114, 105, 112, 116>>
         ELSE <<117, 110, 107, 110, 111, 119, 110>>

Documentation == "Documentation"
DeepDocumentation == "DeepDocumentation"
Analysis == "Analysis"

Tasks == {Documentation, DeepDocumentation, Analysis}

\* output_file_name: "_doc.md", "_deep_doc.md", "_analysis.md"
OutputSuffix(t) ==
    IF t = Documentation THEN <<95, 100, 111, 99, 46, 109, 100>>
    ELSE IF t = DeepDocumentation
         THEN <<95, 100, 101, 101, 112, 95, 100, 111, 99, 46, 109, 100>>
         ELSE <<95, 97, 110, 97, 108, 121, 115, 105, 115, 46, 109, 100>>

\* os.path.join(output_sub_dir, output_file_name), relative to the output root
OutputPath(t, relative_path) ==
    (IF dirname(relative_path) = <<>> THEN <<>> ELSE dirname(relative_path) \o <<Slash>>)
        \o splitext(basename(relative_path))[1] \o OutputSuffix(t)

\* ------------------------------------------------------- index ordering
RECURSIVE LexLess(_, _)
LexLess(s, t) ==
    IF t = <<>> THEN FALSE
    ELSE IF s = <<>> THEN TRUE
    ELSE IF s[1] < t[1] THEN TRUE
    ELSE IF s[1] > t[1] THEN FALSE
    ELSE LexLess(Tail(s), Tail(t))

\* key=lambda x: x[0].lower()
SortKeyCaseSensitive(entry) == entry[1]

SortKey(entry) == lower(entry[1])

RECURSIVE InsertSorted(_, _)
InsertSorted(x, sorted) ==
    IF sorted = <<>> THEN <<x>>
    ELSE IF LexLess(SortKey(x), SortKey(Head(sorted)))
         THEN <<x>> \o sorted
         ELSE <<Head(sorted)>> \o InsertSorted(x, Tail(sorted))

\* list.sort(key=...): ascending by key, equal keys keep their order
RECURSIVE SortFrom(_, _, _)
SortFrom(entries, i, sorted) ==
    IF i > Len(entries) THEN sorted
    ELSE SortFrom(entries, i + 1, InsertSorted(entries[i], sorted))

SortedByKey(entries) == SortFrom(entries, 1, <<>>)

\* ------------------------------------------------------ inference client
\* how one requests.post round trip can end
Outcomes == {"ok", "ConnectionError", "HTTPError", "Exception"}

\* response.text of a non-2xx reply ("500") and str(e) of another exception ("err")
ResponseBody == <<53, 48, 48>>
ExceptionMessage == <<101, 114, 114>>

ConnectionMarker == "**Error: Could not connect to Ollama.**"
ProtocolMarker == "**Error from Ollama API:**"
UnexpectedMarker == "**Error:** An unexpected error occurred while communicating with Ollama:"

ErrorMarkers == {ConnectionMarker, ProtocolMarker, UnexpectedMarker}

\* the try/except of document_with_ollama, call_ollama_api and call_ollama:
\* what the call hands back to its caller for each way the request can end
InferenceReturnUncaught(outcome, prompt) ==
    IF outcome = "ok"
    THEN [raised |-> FALSE, head |-> "response", body |-> prompt.text]
    ELSE IF outcome = "ConnectionError"
         THEN [raised |-> FALSE, head |-> ConnectionMarker, body |-> <<>>]
         ELSE IF outcome = "HTTPError"
              THEN [raised |-> FALSE, head |-> ProtocolMarker, body |-> ResponseBody]
              ELSE [raised |-> TRUE, head |-> "", body |-> ExceptionMessage]

InferenceReturn(outcome, prompt) ==
    IF outcome = "ok"
    THEN [raised |-> FALSE, head |-> "response", body |-> prompt.text]
    ELSE IF outcome = "ConnectionError"
         THEN [raised |-> FALSE, head |-> ConnectionMarker, body |-> <<>>]
         ELSE IF outcome = "HTTPError"
              THEN [raised |-> FALSE, head |-> ProtocolMarker, body |-> ResponseBody]
              ELSE [raised |-> FALSE, head |-> UnexpectedMarker, body |-> ExceptionMessage]

\* the prompt of one request: the values interpolated into the template
Prompt(kind, file_name, file_type, part, text) ==
    [kind |-> kind, file_name |-> file_name, file_type |-> file_type,
     part |-> part, text |-> text]

\* ------------------------------------------- one request and its reply
MaxReplyLen == 2

Space == 32

\* the characters str.strip() removes: those for which str.isspace() holds
Whitespace ==
    {9, 10, 11, 12, 13, 28, 29, 30, 31, 32, 133, 160, 5760, 8232, 8233, 8239,
     8287, 12288} \cup 8192..8202

RECURSIVE lstrip(_)
lstrip(s) == IF s # <<>> /\ Head(s) \in Whitespace THEN lstrip(Tail(s)) ELSE s

RECURSIVE rstrip(_)
rstrip(s) ==
    IF s # <<>> /\ s[Len(s)] \in Whitespace
    THEN rstrip(SubSeq(s, 1, Len(s) - 1))
    ELSE s

strip(s) == rstrip(lstrip(s))

ReplyTexts == UNION {[1..n -> {LetterA, Space}] : n \in 0..MaxReplyLen}

\* the status codes an endpoint can answer with: success, success without
\* a body, a redirection status that requests does not follow (304), client
\* error, server error
StatusCodes == {200, 204, 304, 404, 500}

\* what the body of a reply is: a JSON object with a string under
\* "response", a JSON object without that key, a JSON object with null under
\* it, or text that is not JSON
Shapes == {"response", "no_field", "null_field", "not_json"}

\* requests.post did not get a reply: requests.exceptions.ConnectionError
NoReply == [reachable |-> FALSE, status_code |-> 0, shape |-> "not_json", payload |-> <<>>]

Replies ==
    {NoReply} \cup
        [reachable : {TRUE}, status_code : StatusCodes, shape : Shapes,
         payload : ReplyTexts]

\* response.text: the raw body of the reply
ResponseText(reply) ==
    IF reply.shape = "response"
    THEN
        <<123, 34, 114, 101, 115, 112, 111, 110, 115, 101, 34, 58, 34>>
            \o reply.payload \o <<34, 125>>
    ELSE IF reply.shape = "no_field" THEN <<123, 125>>
    ELSE IF reply.shape = "null_field"
         THEN
              <<123, 34, 114, 101, 115, 112, 111, 110, 115, 101, 34, 58,
                110, 117, 108, 108, 125>>
         ELSE reply.payload

\* response.raise_for_status(): HTTPError for the 4xx and 5xx status codes
RaisesForStatus(status_code) == 400 <= status_code /\ status_code < 600

\* str(n) of a natural number
RECURSIVE Decimal(_)
Decimal(n) == IF n < 10 THEN <<48 + n>> ELSE Decimal(n \div 10) \o <<48 + (n % 10)>>

\* the number of JSON whitespace characters a body starts with
RECURSIVE JsonLeading(_)
JsonLeading(s) ==
    IF s # <<>> /\ Head(s) \in {9, 10, 13, 32} THEN 1 + JsonLeading(Tail(s)) ELSE 0

\* str(e) of the exception raised by result['response'] on a missing key
\* ("'response'"), by .strip() on None ("'NoneType' object has no attribute
\* 'strip'"), by response.json() on a body that is not JSON ("Expecting
\* value: line 1 column {k+1} (char {k})" after k characters of whitespace)
ExceptionText(reply) ==
    IF reply.shape = "no_field"
    THEN <<39, 114, 101, 115, 112, 111, 110, 115, 101, 39>>
    ELSE IF reply.shape = "null_field"
         THEN <<39, 78, 111, 110, 101, 84, 121, 112, 101, 39, 32, 111, 98, 106,
                101, 99, 116, 32, 104, 97, 115, 32, 110, 111, 32, 97, 116, 116,
                114, 105, 98, 117, 116, 101, 32, 39, 115, 116, 114, 105, 112, 39>>
         ELSE <<69, 120, 112, 101, 99, 116, 105, 110, 103, 32, 118, 97, 108, 117,
                101, 58, 32, 108, 105, 110, 101, 32, 49, 32, 99, 111, 108, 117,
                109, 110, 32>>
                  \o Decimal(JsonLeading(reply.payload) + 1)
                  \o <<32, 40, 99, 104, 97, 114, 32>>
                  \o Decimal(JsonLeading(reply.payload)) \o <<41>>

\* the way the try block of the client ends for a reply
RequestOutcome(reply) ==
    IF ~reply.reachable THEN "ConnectionError"
    ELSE IF RaisesForStatus(reply.status_code) THEN "HTTPError"
    ELSE IF reply.shape # "response" THEN "Exception"
    ELSE "ok"

\* call_ollama / call_ollama_api / the request of document_with_ollama:
\* what the client returns for a reply
call_ollama(reply) ==
    IF RequestOutcome(reply) = "ok"
    THEN [raised |-> FALSE, head |-> "response", body |-> strip(reply.payload)]
    ELSE IF RequestOutcome(reply) = "ConnectionError"
         THEN [raised |-> FALSE, head |-> ConnectionMarker, body |-> <<>>]
         ELSE IF RequestOutcome(reply) = "HTTPError"
              THEN [raised |-> FALSE, head |-> ProtocolMarker,
                    body |-> ResponseText(reply)]
              ELSE [raised |-> FALSE, head |-> UnexpectedMarker,
                    body |-> ExceptionText(reply)]

\* ---------------------------------------------- the documentation prompt
\* part_info: f"(Part {i+1} of {len(chunks)})", or "" for a single call
PartInfo(part) ==
    IF part = <<>> THEN <<>>
    ELSE <<40, 80, 97, 114, 116, 32>> \o Decimal(part[1])
            \o <<32, 111, 102, 32>> \o Decimal(part[2]) \o <<41>>

\* the third line of the prompt template of document_with_ollama, which is
\* inside the f-string from "{part_info}" to the end of the line
PromptPartLine(part_info) ==
    part_info \o
        <<32, 35, 32, 84, 104, 105, 115, 32, 119, 105, 108, 108, 32, 98,
          101, 32, 108, 105, 107, 101, 32, 34, 40, 80, 97, 114, 116, 32,
          49, 32, 111, 102, 32, 51, 41, 34, 32, 111, 114, 32, 101, 109,
          112, 116, 121, 32, 102, 111, 114, 32, 115, 105, 110, 103, 108,
          101, 32, 99, 104, 117, 110, 107, 115, 46>>

\* sub in s
Contains(s, sub) ==
    \E i \in 0..(Len(s) - Len(sub)) : SubSeq(s, i + 1, i + Len(sub)) = sub

\* ----------------------------------------------------------- the web UI
MaxClicks == 2

\* the files of the repository
RepositoryFiles ==
    {"app.py", "code_analyzer.py", "code_documentation.py",
     "deep_code_documentation.py", "utils.py"}

\* the commands of app.py, as the words of the shell command
CODE_DOC_SCRIPT == <<"python", "code_documentation.py">>
DEEP_DOC_SCRIPT == <<"python", "deep_documentation.py">>
CODE_ANALYSIS_SCRIPT == <<"python", "code_analyzer.py">>

\* the action values of the three buttons, and a value no button sends
ButtonActions == {"Code Documentation", "Deep Code Documentation", "Code Analysis"}

ActionValues == ButtonActions \cup {"Other"}

\* the if/elif chain of process_code: the command for an action, or no
\* command for an invalid one
ScriptFor(action) ==
    IF action = "Code Documentation" THEN CODE_DOC_SCRIPT
    ELSE IF action = "Deep Code Documentation" THEN DEEP_DOC_SCRIPT
    ELSE IF action = "Code Analysis" THEN CODE_ANALYSIS_SCRIPT
    ELSE <<>>

\* the pipeline a file of the repository runs as a script, by the main
\* function its __main__ block calls
ScriptTask(file) ==
    IF file = "code_documentation.py" THEN Documentation
    ELSE IF file = "deep_code_documentation.py" THEN DeepDocumentation
    ELSE IF file = "code_analyzer.py" THEN Analysis
    ELSE "none"

\* the exit status of the command: python ends with status 2 when it cannot
\* open the script file, else the script ends with the status of its run
ExitStatus(command, run_status) ==
    IF command[2] \in RepositoryFiles THEN run_status ELSE 2

\* the uploads a click can come with: none, a file that is not a zip
\* archive, a zip archive
Uploads == {"none", "corrupt", "valid"}

\* process_code for one click: what it launched and what it returned
ProcessCodeResult(zip_file, action, run_status, archived) ==
    IF zip_file = "none"
    THEN [action |-> action, launched |-> <<>>, status |-> -1,
          message |-> "Please upload a zip file.", download |-> FALSE]
    ELSE IF zip_file = "corrupt"
    THEN [action |-> action, launched |-> <<>>, status |-> -1,
          message |-> "Failed to extract zip file.", download |-> FALSE]
    ELSE IF ScriptFor(action) = <<>>
    THEN [action |-> action, launched |-> <<>>, status |-> -1,
          message |-> "Invalid action selected.", download |-> FALSE]
    ELSE IF ExitStatus(ScriptFor(action), run_status) # 0
    THEN [action |-> action, launched |-> ScriptFor(action),
          status |-> ExitStatus(ScriptFor(action), run_status),
          message |-> "failed", download |-> FALSE]
    ELSE [action |-> action, launched |-> ScriptFor(action), status |-> 0,
          message |-> IF archived THEN "completed successfully"
                      ELSE "Failed to create documentation zip file.",
          download |-> archived]

\* ---------------------------------------------------------- persistence
\* how one save_markdown / save_analysis_report call can end: the write
\* succeeds, open/write raises inside the try, os.makedirs raises before it
SaveOutcomes == {"ok", "write_error", "makedirs_error"}

SaveReturnAllCaught(outcome) ==
    IF outcome = "ok" THEN "True" ELSE "False"

SaveReturn(outcome) ==
    IF outcome = "ok" THEN "True"
    ELSE IF outcome = "write_error" THEN "False"
    ELSE "raise"

\* ---------------------------------------------------------- run bounds
MaxFiles == 2
MaxRunLen == 2
MaxRunBudget == 2
MaxFaults == 2

RunChars == {LetterA, LF}

RunTexts == UNION {[1..n -> RunChars] : n \in 0..MaxRunLen}

\* what scan_directory can return: supported files, each once, in walk order
ScanLists ==
    {s \in UNION {[1..n -> Paths] : n \in 0..MaxFiles} :
        \A i, j \in 1..Len(s) : i # j => s[i] # s[j]}

\* the value of `content`: a file's text, or None after a failed read
NoneContent == [is_none |-> TRUE, path |-> <<>>, text |-> <<>>]

FileContent(path, text) == [is_none |-> FALSE, path |-> path, text |-> text]

NoResult == [raised |-> FALSE, head |-> "", body |-> <<>>]

\* the first three lines of a per-file document
DocHeader(relative_path) ==
    [title |-> relative_path,
     file_type |-> get_file_type(splitext(basename(relative_path))[2]),
     sections |-> <<>>]

NoDoc == [title |-> <<>>, file_type |-> <<>>, sections |-> <<>>]

\* f"## Part {i+1}" for the i of enumerate(chunks)
PartNumberZeroBased(i) == i

PartNumber(i) == i + 1

\* `if len(chunks) > 1:` part sections, or else one plain result
IsMultiPart(file_chunks) == Len(file_chunks) > 1

PartHeading(t) == IF t = Analysis THEN "Part Analysis" ELSE "Part"

PromptKind(t) == IF t = Analysis THEN "analysis" ELSE "documentation"

\* the three facets of document_file_with_ollama, in call order
Facets == <<"summary", "components", "examples">>

FacetHeadingSwapped(k) ==
    IF k = 1 THEN "Overall Summary"
    ELSE IF k = 2 THEN "Examples on How to Use the Code"
    ELSE "Properties, Variables, and Functions"

FacetHeading(k) ==
    IF k = 1 THEN "Overall Summary"
    ELSE IF k = 2 THEN "Properties, Variables, and Functions"
    ELSE "Examples on How to Use the Code"

\* ------------------------------------------------------------- variables
VARIABLES
    cText, cBudget, cBudget2, cChunks, cChunks2, cpc,
    kReply, kResult, kpc,
    uHistory,
    task, chunk_size, source_is_dir, pc, status,
    file_paths, fi, content, all_file_contents, chunks, ci, full_doc,
    documented_files_info, storage, index_writes, log, saves, faults, reads

cvars == <<cText, cBudget, cBudget2, cChunks, cChunks2, cpc>>

rvars ==
    <<task, chunk_size, source_is_dir, pc, status,
      file_paths, fi, content, all_file_contents, chunks, ci, full_doc,
      documented_files_info, storage, index_writes, log, saves, faults, reads>>

kvars == <<kReply, kResult, kpc>>

uvars == <<uHistory>>

vars == <<cvars, kvars, uvars, rvars>>

ChunkerIdle ==
    /\ cText = <<>>
    /\ cBudget = 1
    /\ cBudget2 = 1
    /\ cChunks = <<>>
    /\ cChunks2 = <<>>
    /\ cpc = "idle"

ClientIdle ==
    /\ kReply = NoReply
    /\ kResult = NoResult
    /\ kpc = "idle"

UIIdle == uHistory = <<>>

RunIdle ==
    /\ task = Documentation
    /\ chunk_size = 1
    /\ source_is_dir = FALSE
    /\ pc = "idle"
    /\ status = "idle"
    /\ file_paths = <<>>
    /\ fi = 0
    /\ content = NoneContent
    /\ all_file_contents = <<>>
    /\ chunks = <<>>
    /\ ci = 0
    /\ full_doc = NoDoc
    /\ documented_files_info = <<>>
    /\ storage = [x \in {} |-> NoDoc]
    /\ index_writes = <<>>
    /\ log = <<>>
    /\ saves = <<>>
    /\ faults = 0
    /\ reads = <<>>

\* ------------------------------------------- the chunker on bounded inputs
InitChunk ==
    /\ cText \in Texts
    /\ cBudget \in 1..MaxBudget
    /\ cBudget2 \in 1..MaxBudget
    /\ cChunks = <<>>
    /\ cChunks2 = <<>>
    /\ cpc = "input"
    /\ ClientIdle
    /\ UIIdle
    /\ RunIdle

ChunkFirst ==
    /\ cpc = "input"
    /\ cChunks' = chunk_content(cText, cBudget)
    /\ cpc' = "one"
    /\ UNCHANGED <<cText, cBudget, cBudget2, cChunks2, kvars, uvars, rvars>>

ChunkSecond ==
    /\ cpc = "one"
    /\ cChunks2' = chunk_content(cText, cBudget2)
    /\ cpc' = "two"
    /\ UNCHANGED <<cText, cBudget, cBudget2, cChunks, kvars, uvars, rvars>>

NextChunk == ChunkFirst \/ ChunkSecond

SpecChunk == InitChunk /\ [][NextChunk]_vars

\* ------------------------------------- the client on bounded replies
InitClient ==
    /\ kReply \in Replies
    /\ kResult = NoResult
    /\ kpc = "input"
    /\ ChunkerIdle
    /\ UIIdle
    /\ RunIdle

CallClient ==
    /\ kpc = "input"
    /\ kResult' = call_ollama(kReply)
    /\ kpc' = "returned"
    /\ UNCHANGED <<kReply, cvars, uvars, rvars>>

NextClient == CallClient

SpecClient == InitClient /\ [][NextClient]_vars

\* ------------------------------------------------ clicks on the web UI
InitUI ==
    /\ uHistory = <<>>
    /\ ChunkerIdle
    /\ ClientIdle
    /\ RunIdle

\* one click: process_code from the upload test to its return; the exit
\* status of the script and the outcome of make_archive are inputs where
\* the handler gets that far
ProcessCode ==
    /\ Len(uHistory) < MaxClicks
    /\ \E zip_file \in Uploads, action \in ActionValues,
          run_status \in {0, 1}, archived \in BOOLEAN :
          /\ (zip_file # "valid" \/ ScriptFor(action) = <<>>) =>
                (run_status = 0 /\ archived)
          /\ (zip_file = "valid" /\ ScriptFor(action) # <<>>
                 /\ ExitStatus(ScriptFor(action), run_status) # 0) => archived
          /\ (zip_file = "valid" /\ ScriptFor(action) # <<>>
                 /\ ScriptFor(action)[2] \notin RepositoryFiles) => run_status = 0
          /\ uHistory' = Append(uHistory,
                                ProcessCodeResult(zip_file, action, run_status, archived))
    /\ UNCHANGED <<cvars, kvars, rvars>>

NextUI == ProcessCode

SpecUI == InitUI /\ [][NextUI]_vars

\* ------------------------------------------------- one run of a pipeline
Init ==
    /\ ChunkerIdle
    /\ ClientIdle
    /\ UIIdle
    /\ task \in Tasks
    /\ chunk_size \in 1..MaxRunBudget
    /\ source_is_dir \in BOOLEAN
    /\ pc = "start"
    /\ status = "running"
    /\ file_paths = <<>>
    /\ fi = 0
    /\ content = NoneContent
    /\ all_file_contents = <<>>
    /\ chunks = <<>>
    /\ ci = 0
    /\ full_doc = NoDoc
    /\ documented_files_info = <<>>
    /\ storage = [x \in {} |-> NoDoc]
    /\ index_writes = <<>>
    /\ log = <<>>
    /\ saves = <<>>
    /\ faults = 0
    /\ reads = <<>>

\* an injected failure is allowed while the run's failure budget lasts
Inject(is_failure) ==
    /\ is_failure => faults < MaxFaults
    /\ faults' = IF is_failure THEN faults + 1 ELSE faults

\* where the per-file loop goes after the file at index i of n
AfterFileEarly(i, n, loop_pc) == "index"

AfterFile(i, n, loop_pc) == IF i + 1 > n THEN "index" ELSE loop_pc

\* `if not file_paths:` before the loop: exit with status 0, no index
NoFilesExitNever(scan) == FALSE

NoFilesExit(scan) == scan = <<>>

\* what stays in all_file_contents once a file has been read: Analysis
\* keeps every text read in phase 1, the two documentation tasks keep none
RetainAlways(t, contents, item) == Append(contents, item)

Retain(t, contents, item) ==
    IF t = Analysis THEN Append(contents, item) ELSE contents

\* the run was ended by an exception nothing catches
Aborted == status \in {"uncaught_oserror", "uncaught_inference_error"}

\* `if not os.path.isdir(SOURCE_CODE_DIR):` exit with status 1
SourceRootRejectedNever(is_dir) == FALSE

SourceRootRejected(is_dir) == ~is_dir

\* main_documentation / main_analysis up to the per-file loop: the isdir
\* test, os.makedirs of the output root, the scan (os.walk finds nothing
\* under a path that is not a directory) and the no-files exit
Start ==
    /\ pc = "start"
    /\ \E mk \in {"ok", "makedirs_error"}, scan \in ScanLists :
          /\ (~source_is_dir \/ mk # "ok") => scan = <<>>
          /\ SourceRootRejected(source_is_dir) => mk = "ok"
          /\ IF SourceRootRejected(source_is_dir)
             THEN /\ status' = "exit1"
                  /\ pc' = "done"
             ELSE IF mk # "ok"
             THEN /\ status' = "uncaught_oserror"
                  /\ pc' = "done"
             ELSE IF NoFilesExit(scan)
             THEN /\ status' = "exit0"
                  /\ pc' = "done"
             ELSE /\ status' = "running"
                  /\ pc' = AfterFile(0, Len(scan),
                                     IF task = Analysis THEN "phase1" ELSE "read")
          /\ file_paths' = scan
          /\ fi' = 1
    /\ UNCHANGED <<cvars, kvars, uvars, task, chunk_size, source_is_dir, content, all_file_contents,
                   chunks, ci, full_doc, documented_files_info, storage,
                   index_writes, log, saves, faults, reads>>

\* `if content is None: continue`: the loop goes on with the next file
SkipUnreadableBreak(i, n, loop_pc) == "index"

SkipUnreadable(i, n, loop_pc) == AfterFile(i, n, loop_pc)

\* Documentation / DeepDocumentation: the top of the per-file loop, from
\* read_file_content to the document header
ReadFile ==
    /\ pc = "read"
    /\ task # Analysis
    /\ \/ /\ Inject(TRUE)
          /\ reads' = Append(reads, [path |-> file_paths[fi], ok |-> FALSE])
          /\ content' = NoneContent
          /\ fi' = fi + 1
          /\ pc' = SkipUnreadable(fi, Len(file_paths), "read")
          /\ UNCHANGED <<chunks, ci, full_doc, all_file_contents>>
       \/ \E text \in RunTexts :
             /\ Inject(FALSE)
             /\ reads' = Append(reads, [path |-> file_paths[fi], ok |-> TRUE])
             /\ content' = FileContent(file_paths[fi], text)
             /\ all_file_contents' =
                    Retain(task, all_file_contents, FileContent(file_paths[fi], text))
             /\ chunks' = IF task = Documentation
                          THEN chunk_content(text, chunk_size)
                          ELSE chunks
             /\ full_doc' = DocHeader(file_paths[fi])
             /\ ci' = 0
             /\ pc' = IF task = Documentation THEN "infer" ELSE "facet"
             /\ UNCHANGED fi
    /\ UNCHANGED <<cvars, kvars, uvars, task, chunk_size, source_is_dir, status, file_paths,
                   documented_files_info, storage, index_writes, log, saves>>

\* Analysis, phase 1: read every scanned file into all_file_contents
Phase1Read ==
    /\ pc = "phase1"
    /\ task = Analysis
    /\ \/ /\ Inject(TRUE)
          /\ reads' = Append(reads, [path |-> file_paths[fi], ok |-> FALSE])
          /\ content' = NoneContent
          /\ UNCHANGED all_file_contents
       \/ \E text \in RunTexts :
             /\ Inject(FALSE)
             /\ reads' = Append(reads, [path |-> file_paths[fi], ok |-> TRUE])
             /\ content' = FileContent(file_paths[fi], text)
             /\ all_file_contents' =
                    Retain(task, all_file_contents, FileContent(file_paths[fi], text))
    /\ IF fi + 1 > Len(file_paths)
       THEN /\ fi' = 1
            /\ pc' = IF all_file_contents' = <<>> THEN "index" ELSE "phase2"
       ELSE /\ fi' = fi + 1
            /\ pc' = "phase1"
    /\ UNCHANGED <<cvars, kvars, uvars, task, chunk_size, source_is_dir, status, file_paths,
                   chunks, ci, full_doc, documented_files_info, storage,
                   index_writes, log, saves>>

\* Analysis, phase 2: the top of the loop over all_file_contents.items()
BeginAnalysis ==
    /\ pc = "phase2"
    /\ task = Analysis
    /\ content' = all_file_contents[fi]
    /\ chunks' = chunk_content(all_file_contents[fi].text, chunk_size)
    /\ full_doc' = DocHeader(all_file_contents[fi].path)
    /\ ci' = 0
    /\ pc' = "infer"
    /\ UNCHANGED <<cvars, kvars, uvars, task, chunk_size, source_is_dir, status, file_paths, fi,
                   all_file_contents, documented_files_info, storage,
                   index_writes, log, saves, faults, reads>>

\* `for i, chunk in enumerate(chunks):` has more chunks to go after `done`
\* of them; the single call of the else branch has none
MorePartsNever(multi, done, n) == FALSE

MoreParts(multi, done, n) == multi /\ done < n

\* Documentation / Analysis: one inference request of the per-file
\* aggregator, for chunk ci+1 of a multi-part file or for the whole content
DocumentChunk ==
    /\ pc = "infer"
    /\ task # DeepDocumentation
    /\ \E outcome \in Outcomes :
          LET multi == IsMultiPart(chunks)
              prompt == Prompt(PromptKind(task), basename(content.path),
                               full_doc.file_type,
                               IF multi THEN <<PartNumber(ci), Len(chunks)>> ELSE <<>>,
                               IF multi THEN chunks[ci + 1] ELSE content.text)
              result == InferenceReturn(outcome, prompt)
          IN  /\ Inject(outcome # "ok")
              /\ log' = Append(log, [rel |-> content.path, prompt |-> prompt,
                                     outcome |-> outcome, result |-> result])
              /\ IF result.raised
                 THEN /\ status' = "uncaught_inference_error"
                      /\ pc' = "done"
                      /\ UNCHANGED <<full_doc, ci>>
                 ELSE /\ full_doc' =
                            [full_doc EXCEPT !.sections =
                                Append(@, [name |-> IF multi THEN PartHeading(task) ELSE "",
                                           part |-> IF multi THEN PartNumber(ci) ELSE 0,
                                           body |-> result])]
                      /\ ci' = ci + 1
                      /\ pc' = IF MoreParts(multi, ci + 1, Len(chunks)) THEN "infer" ELSE "save"
                      /\ UNCHANGED status
    /\ UNCHANGED <<cvars, kvars, uvars, task, chunk_size, source_is_dir, file_paths, fi, content,
                   all_file_contents, chunks, documented_files_info, storage,
                   index_writes, saves, reads>>

\* DeepDocumentation: one of the three facet requests of
\* document_file_with_ollama, each on the whole file content
DocumentFacet ==
    /\ pc = "facet"
    /\ task = DeepDocumentation
    /\ \E outcome \in Outcomes :
          LET prompt == Prompt(Facets[ci + 1], basename(content.path),
                               full_doc.file_type, <<>>, content.text)
              result == InferenceReturn(outcome, prompt)
          IN  /\ Inject(outcome # "ok")
              /\ log' = Append(log, [rel |-> content.path, prompt |-> prompt,
                                     outcome |-> outcome, result |-> result])
              /\ IF result.raised
                 THEN /\ status' = "uncaught_inference_error"
                      /\ pc' = "done"
                      /\ UNCHANGED <<full_doc, ci>>
                 ELSE /\ full_doc' =
                            [full_doc EXCEPT !.sections =
                                Append(@, [name |-> FacetHeading(ci + 1),
                                           part |-> 0,
                                           body |-> result])]
                      /\ ci' = ci + 1
                      /\ pc' = IF ci + 1 < Len(Facets) THEN "facet" ELSE "save"
                      /\ UNCHANGED status
    /\ UNCHANGED <<cvars, kvars, uvars, task, chunk_size, source_is_dir, file_paths, fi, content,
                   all_file_contents, chunks, documented_files_info, storage,
                   index_writes, saves, reads>>

\* the end of the per-file loop body: save_markdown / save_analysis_report
\* of the finished document, and the append to the list of persisted files
SaveDocument ==
    /\ pc = "save"
    /\ \E outcome \in SaveOutcomes :
          LET saved == SaveReturn(outcome)
              output_full_path == OutputPath(task, content.path)
              n == IF task = Analysis THEN Len(all_file_contents) ELSE Len(file_paths)
          IN  /\ Inject(outcome # "ok")
              /\ saves' = Append(saves, [rel |-> content.path,
                                         target |-> output_full_path,
                                         outcome |-> outcome])
              /\ IF saved = "raise"
                 THEN /\ status' = "uncaught_oserror"
                      /\ pc' = "done"
                      /\ UNCHANGED <<fi, storage, documented_files_info>>
                 ELSE /\ storage' = IF saved = "True"
                                    THEN (output_full_path :> full_doc) @@ storage
                                    ELSE storage
                      /\ documented_files_info' =
                            IF saved = "True"
                            THEN Append(documented_files_info,
                                        <<content.path, output_full_path>>)
                            ELSE documented_files_info
                      /\ fi' = fi + 1
                      /\ pc' = AfterFile(fi, n, IF task = Analysis THEN "phase2" ELSE "read")
                      /\ UNCHANGED status
    /\ UNCHANGED <<cvars, kvars, uvars, task, chunk_size, source_is_dir, file_paths, content,
                   all_file_contents, chunks, ci, full_doc, index_writes, log, reads>>

\* "\n".join(f"- {path} ({get_file_type(os.path.splitext(path)[1])})" ...):
\* the file list of the project-summary prompt
FileListStrWithContents(entries) ==
    Join([i \in 1..Len(entries) |-> entries[i][1]])
        \o Join([i \in 1..Len(all_file_contents) |-> all_file_contents[i].text])

RECURSIVE FileListStr(_)
FileListStr(entries) ==
    IF entries = <<>> THEN <<>>
    ELSE <<45, 32>> \o Head(entries)[1] \o <<32, 40>>
            \o get_file_type(splitext(Head(entries)[1])[2]) \o <<41>>
            \o (IF Len(entries) > 1 THEN <<LF>> ELSE <<>>)
            \o FileListStr(Tail(entries))

\* the file name of the project index at the output root:
\* "TABLE_OF_CONTENTS.md" or "PROJECT_ANALYSIS_SUMMARY.md"
IndexName(t) ==
    IF t = Analysis
    THEN <<80, 82, 79, 74, 69, 67, 84, 95, 65, 78, 65, 76, 89, 83, 73, 83, 95,
           83, 85, 77, 77, 65, 82, 89, 46, 109, 100>>
    ELSE <<84, 65, 66, 76, 69, 95, 79, 70, 95, 67, 79, 78, 84, 69, 78, 84, 83,
           46, 109, 100>>

\* how many of the two calls of an index step failed
FailureCount(inference_outcome, save_outcome) ==
    (IF inference_outcome # "ok" THEN 1 ELSE 0) + (IF save_outcome # "ok" THEN 1 ELSE 0)

\* Documentation / DeepDocumentation: generate_table_of_contents
GenerateTableOfContents ==
    /\ pc = "index"
    /\ task # Analysis
    /\ \E outcome \in SaveOutcomes :
          LET listed == IF documented_files_info = <<>>
                        THEN <<>>
                        ELSE SortedByKey(documented_files_info)
              toc_content ==
                  [name |-> IndexName(task),
                   note |-> IF documented_files_info = <<>>
                            THEN "No supported files were documented."
                            ELSE "",
                   entries |-> listed,
                   overall |-> NoResult]
              saved == SaveReturn(outcome)
          IN  /\ Inject(outcome # "ok")
              /\ documented_files_info' = listed
              /\ index_writes' = IF saved = "True"
                                 THEN Append(index_writes, toc_content)
                                 ELSE index_writes
              /\ saves' = Append(saves, [rel |-> <<>>, target |-> IndexName(task),
                                         outcome |-> outcome])
              /\ status' = IF saved = "raise" THEN "uncaught_oserror" ELSE "completed"
              /\ pc' = "done"
    /\ UNCHANGED <<cvars, kvars, uvars, task, chunk_size, source_is_dir, file_paths, fi, content,
                   all_file_contents, chunks, ci, full_doc, storage, log, reads>>

\* `if not analyzed_files_info:` in generate_overall_summary: the index says
\* that no files were analyzed and no project-summary request is made
NothingAnalyzedNever(analyzed_files_info) == FALSE

NothingAnalyzed(analyzed_files_info) == analyzed_files_info = <<>>

\* Analysis: generate_overall_summary, with its project-summary request
GenerateOverallSummary ==
    /\ pc = "index"
    /\ task = Analysis
    /\ \E inference_outcome \in Outcomes, outcome \in SaveOutcomes :
          LET empty == NothingAnalyzed(documented_files_info)
              listed == IF empty THEN <<>> ELSE SortedByKey(documented_files_info)
              prompt == Prompt("overall", <<>>, <<>>, <<>>, FileListStr(listed))
              result == InferenceReturn(inference_outcome, prompt)
              summary_content ==
                  [name |-> IndexName(task),
                   note |-> IF empty THEN "No supported files were analyzed." ELSE "",
                   entries |-> listed,
                   overall |-> IF empty THEN NoResult ELSE result]
              saved == SaveReturn(outcome)
              aborted == ~empty /\ result.raised
          IN  /\ empty => inference_outcome = "ok"
              /\ aborted => outcome = "ok"
              /\ faults + FailureCount(inference_outcome, outcome) <= MaxFaults
              /\ faults' = faults + FailureCount(inference_outcome, outcome)
              /\ documented_files_info' = listed
              /\ log' = IF empty
                        THEN log
                        ELSE Append(log, [rel |-> <<>>, prompt |-> prompt,
                                          outcome |-> inference_outcome,
                                          result |-> result])
              /\ index_writes' = IF ~aborted /\ saved = "True"
                                 THEN Append(index_writes, summary_content)
                                 ELSE index_writes
              /\ saves' = IF aborted
                          THEN saves
                          ELSE Append(saves, [rel |-> <<>>, target |-> IndexName(task),
                                              outcome |-> outcome])
              /\ status' = IF aborted THEN "uncaught_inference_error"
                            ELSE IF saved = "raise" THEN "uncaught_oserror"
                            ELSE "completed"
              /\ pc' = "done"
    /\ UNCHANGED <<cvars, kvars, uvars, task, chunk_size, source_is_dir, file_paths, fi, content,
                   all_file_contents, chunks, ci, full_doc, storage, reads>>

Next ==
    \/ Start
    \/ ReadFile
    \/ Phase1Read
    \/ BeginAnalysis
    \/ DocumentChunk
    \/ DocumentFacet
    \/ SaveDocument
    \/ GenerateTableOfContents
    \/ GenerateOverallSummary

Spec == Init /\ [][Next]_vars

\* ------------------------------------------------- views of a run's state
\* the inference requests issued for one source file, in issue order
FileLog(path) == SelectSeq(log, LAMBDA e : e.rel = path)

\* the save calls made for the project index
IndexSaves == SelectSeq(saves, LAMBDA e : e.rel = <<>>)

\* the source files whose per-file document was written successfully
PersistedPaths ==
    {saves[k].rel : k \in {j \in 1..Len(saves) :
                              saves[j].rel # <<>> /\ saves[j].outcome = "ok"}}

\* the project-summary requests of generate_overall_summary
SummaryLog == SelectSeq(log, LAMBDA e : e.rel = <<>>)

\* the save calls made for the per-file document of one source file
FileSaves(path) == SelectSeq(saves, LAMBDA e : e.rel = path)

\* the requests of one file are all there: the three facets, or the one
\* request of a single-part file, or parts 1..n of an n-part file
RequestsComplete(requests) ==
    IF task = DeepDocumentation
    THEN Len(requests) = Len(Facets)
    ELSE /\ requests # <<>>
         /\ LET last == requests[Len(requests)].prompt.part
            IN  IF last = <<>>
                THEN Len(requests) = 1
                ELSE Len(requests) = last[2] /\ last[1] = last[2]

\* the persisted source files as (relative path, document path) pairs, in
\* scan order
PersistedInScanOrder ==
    LET kept == SelectSeq(file_paths, LAMBDA q : q \in PersistedPaths)
    IN  [i \in 1..Len(kept) |-> <<kept[i], OutputPath(task, kept[i])>>]

\* how often a path was handed to read_file_content
ReadCount(path) == Cardinality({k \in 1..Len(reads) : reads[k].path = path})

\* the source files whose content the process references
HeldPaths ==
    (IF content.is_none THEN {} ELSE {content.path})
        \cup {all_file_contents[k].path : k \in 1..Len(all_file_contents)}

\* -------------------------------------------------------------- chunker
\* C1: once chunk_content has run, joining its chunks in order gives back the
\* input text exactly, and the empty text gives no chunks.
RoundTrip ==
    cpc \in {"one", "two"} =>
        /\ Join(cChunks) = cText
        /\ (cText = <<>> => cChunks = <<>>)

\* a text without a trailing newline, holding a line longer than the budget,
\* that was split into several chunks
RoundTripWitness ==
    /\ cpc = "one"
    /\ Len(cChunks) > 1
    /\ cText[Len(cText)] = LetterA
    /\ \E i \in 1..Len(cChunks) : Len(cChunks[i]) > cBudget

\* C2: every chunk is within the budget, or is exactly one line of the text
\* that is itself longer than the budget.
BudgetRespect ==
    cpc \in {"one", "two"} =>
        \A i \in 1..Len(cChunks) :
            \/ Len(cChunks[i]) <= cBudget
            \/ /\ Len(splitlines(cChunks[i])) = 1
               /\ \E k \in 1..Len(splitlines(cText)) : splitlines(cText)[k] = cChunks[i]

\* both kinds of chunk in one result: an over-budget line alone, and a chunk
\* of several lines within the budget
BudgetRespectWitness ==
    /\ cpc = "one"
    /\ \E i, j \in 1..Len(cChunks) :
          /\ Len(cChunks[i]) > cBudget
          /\ Len(splitlines(cChunks[j])) > 1

\* C3: for budgets b1 < b2 on the same text, the smaller budget gives at
\* least as many chunks.
CountMonotone ==
    (cpc = "two" /\ cBudget < cBudget2) => Len(cChunks) >= Len(cChunks2)

CountMonotoneWitness ==
    /\ cpc = "two"
    /\ cBudget < cBudget2
    /\ Len(cChunks) > Len(cChunks2)
    /\ Len(cChunks2) > 1

\* ------------------------------------------------------------------ runs
\* C4 as stated: a run on a valid source root that nothing aborts and in
\* which no call fails ends with the project index persisted, and when no
\* file was found that index says that no files were processed.
ZeroFilesStillIndexed ==
    (pc = "done" /\ source_is_dir /\ ~Aborted /\ faults = 0) =>
        /\ Len(index_writes) = 1
        /\ (file_paths = <<>> => index_writes[1].note # "")

\* C4, amended: when the scan of a valid source root finds no supported file
\* the run exits with success status and neither writes nor attempts an
\* index; the index is generated only after a non-empty scan whose files
\* were all visited, a run that completes has attempted it exactly once, and
\* a persisted index states that no files were processed exactly when no
\* per-file document was persisted.
IndexAfterNonEmptyScan ==
    /\ (pc = "done" /\ source_is_dir /\ file_paths = <<>> /\ ~Aborted) =>
          (status = "exit0" /\ index_writes = <<>> /\ IndexSaves = <<>>)
    /\ IndexSaves # <<>> =>
          /\ source_is_dir
          /\ file_paths # <<>>
          /\ \A i \in 1..Len(file_paths) : ReadCount(file_paths[i]) = 1
    /\ status = "completed" =>
          /\ Len(IndexSaves) = 1
          /\ (IndexSaves[1].outcome = "ok" => Len(index_writes) = 1)
    /\ \A k \in 1..Len(index_writes) :
          (index_writes[k].note # "") <=> (PersistedPaths = {})

\* the zero-file run: a clean exit, and nothing written
ZeroFilesWitness ==
    /\ pc = "done"
    /\ source_is_dir
    /\ status = "exit0"
    /\ file_paths = <<>>
    /\ index_writes = <<>>

\* a persisted index that states that no files were processed
EmptyIndexWitness ==
    /\ pc = "done"
    /\ status = "completed"
    /\ Len(index_writes) = 1
    /\ index_writes[1].note # ""

PartSections ==
    /\ (task # DeepDocumentation /\ pc = "save") =>
          LET n == Len(chunks)
              requests == FileLog(content.path)
              sections == full_doc.sections
          IN  /\ n > 1 =>
                    /\ Len(sections) = n
                    /\ Len(requests) = n
                    /\ \A i \in 1..n :
                          /\ sections[i].name = PartHeading(task)
                          /\ sections[i].part = i
                          /\ sections[i].body = requests[i].result
                          /\ requests[i].prompt.text = chunks[i]
              /\ n = 1 =>
                    /\ Len(sections) = 1
                    /\ Len(requests) = 1
                    /\ sections[1].name = ""
                    /\ sections[1].part = 0
                    /\ sections[1].body = requests[1].result
                    /\ requests[1].prompt.text = chunks[1]
    /\ (task # DeepDocumentation /\ saves # <<>>) =>
          LET last == saves[Len(saves)]
          IN  (last.outcome = "ok" /\ last.rel # <<>> /\ last.rel = full_doc.title) =>
                  storage[last.target] = full_doc

\* a two-part analysis report whose second part holds a failure text
PartSectionsWitness ==
    /\ task = Analysis
    /\ pc = "save"
    /\ Len(chunks) = 2
    /\ Len(full_doc.sections) = 2
    /\ full_doc.sections[2].part = 2
    /\ full_doc.sections[2].body.head = ProtocolMarker

\* a file of one chunk: one section, no part number
SinglePartWitness ==
    /\ task = Documentation
    /\ pc = "save"
    /\ Len(chunks) = 1
    /\ full_doc.sections[1].part = 0

\* C7: a persisted index lists exactly the source files whose document was
\* written successfully, each once, in ascending order of the lower-cased
\* relative path.
IndexListsPersisted ==
    \A k \in 1..Len(index_writes) :
        LET entries == index_writes[k].entries
        IN  /\ {entries[i][1] : i \in 1..Len(entries)} = PersistedPaths
            /\ Len(entries) = Cardinality(PersistedPaths)
            /\ \A i, j \in 1..Len(entries) :
                  i < j => ~LexLess(lower(entries[j][1]), lower(entries[i][1]))

\* "B.py" was scanned and persisted before "a.py", and the index lists
\* "a.py" first
IndexListsPersistedWitness ==
    /\ Len(index_writes) = 1
    /\ file_paths = <<PathUpperB, PathLowerA>>
    /\ Len(index_writes[1].entries) = 2
    /\ index_writes[1].entries[1][1] = PathLowerA

\* an index that leaves out a file that could not be read and one that
\* could not be written
IndexExcludesWitness ==
    /\ Len(index_writes) = 1
    /\ index_writes[1].entries = <<>>
    /\ \E k \in 1..Len(reads) : ~reads[k].ok
    /\ \E k \in 1..Len(saves) : saves[k].rel # <<>> /\ saves[k].outcome = "write_error"

\* C8 as stated: a failed write of a per-file document, in os.makedirs or in
\* the write itself, leaves the run running, and a finished run has
\* generated the index.
PersistFailureOnlyLogged ==
    \A k \in 1..Len(saves) :
        (saves[k].rel # <<>> /\ saves[k].outcome # "ok") =>
            /\ saves[k].rel \notin {documented_files_info[i][1] :
                                       i \in 1..Len(documented_files_info)}
            /\ k = Len(saves) => status = "running"
            /\ pc = "done" => IndexSaves # <<>>

\* C9 as stated: when the document of a file is complete, the requests
\* issued for the file are one per chunk, in chunk order, for every chunk
\* count including zero.
OneRequestPerChunk ==
    (task # DeepDocumentation /\ pc = "save") =>
        /\ Len(FileLog(content.path)) = Len(chunks)
        /\ \A i \in 1..Len(chunks) : FileLog(content.path)[i].prompt.text = chunks[i]

\* C10 as stated: in all three tasks at most one file's content is held at
\* any point, and no file is read twice.
HoldsAtMostOneFile ==
    /\ Cardinality(HeldPaths) <= 1
    /\ \A p \in Paths : ReadCount(p) <= 1

\* C10, amended: no file is read twice in any task; Documentation and
\* DeepDocumentation hold the content of at most one file at any point;
\* Analysis holds the content of every file it has read successfully, until
\* the run ends.
HoldsOneFileUnlessAnalysis ==
    /\ \A p \in Paths : ReadCount(p) <= 1
    /\ task # Analysis => Cardinality(HeldPaths) <= 1
    /\ task = Analysis =>
          {all_file_contents[k].path : k \in 1..Len(all_file_contents)}
              = {reads[k].path : k \in {j \in 1..Len(reads) : reads[j].ok}}

\* a documentation run reading its second file after the first was read
HoldsOneFileWitness ==
    /\ task = Documentation
    /\ Len(reads) = 2
    /\ reads[1].ok
    /\ reads[2].ok
    /\ Cardinality(HeldPaths) = 1

\* C11 as stated: every Analysis run that reaches index generation issues
\* exactly one project-summary request, and the other tasks issue none.
OneSummaryRequestAlways ==
    /\ task # Analysis => SummaryLog = <<>>
    /\ (task = Analysis /\ IndexSaves # <<>>) =>
          /\ Len(SummaryLog) = 1
          /\ log[Len(log)].rel = <<>>

\* C11, amended: Documentation and DeepDocumentation issue no
\* project-summary request; an Analysis run that reaches index generation
\* issues exactly one when at least one per-file report was persisted and
\* none when no report was persisted; the request is the last one of the
\* run; a persisted index that lists reports ends with that request's result
\* or failure text, and a persisted index that lists none says that no files
\* were analyzed and carries no summary.
SummaryRequestWhenPersisted ==
    /\ task # Analysis => SummaryLog = <<>>
    /\ Len(SummaryLog) <= 1
    /\ SummaryLog # <<>> =>
          /\ log[Len(log)].rel = <<>>
          /\ pc = "done"
          /\ IndexSaves # <<>>
    /\ (task = Analysis /\ IndexSaves # <<>>) =>
          (Len(SummaryLog) = 1 <=> PersistedPaths # {})
    /\ \A k \in 1..Len(index_writes) :
          task = Analysis =>
              IF index_writes[k].entries # <<>>
              THEN /\ Len(SummaryLog) = 1
                   /\ index_writes[k].overall = SummaryLog[1].result
                   /\ index_writes[k].note = ""
              ELSE /\ index_writes[k].overall = NoResult
                   /\ index_writes[k].note # ""

\* an analysis run whose only report could not be written: the index is
\* persisted without any project-summary request
NoSummaryRequestWitness ==
    /\ task = Analysis
    /\ status = "completed"
    /\ Len(index_writes) = 1
    /\ \E k \in 1..Len(reads) : reads[k].ok
    /\ log # <<>>
    /\ SummaryLog = <<>>

\* an analysis run whose project-summary request failed after two per-file
\* requests: the failure text is in the persisted index
SummaryAppendedWitness ==
    /\ task = Analysis
    /\ status = "completed"
    /\ Len(log) = 3
    /\ Len(index_writes) = 1
    /\ index_writes[1].overall.head = ConnectionMarker

\* C12: when the source root is not a directory the run ends with exit
\* status 1 in its first step: nothing was scanned, no file was read, no
\* inference request was issued, and no document or index was written or
\* attempted.
RejectedSourceRoot ==
    ~source_is_dir =>
        /\ pc = "start" \/ (pc = "done" /\ status = "exit1")
        /\ file_paths = <<>>
        /\ reads = <<>>
        /\ log = <<>>
        /\ saves = <<>>
        /\ index_writes = <<>>
        /\ DOMAIN storage = {}

RejectedSourceRootWitness ==
    /\ ~source_is_dir
    /\ pc = "done"
    /\ status = "exit1"

\* C13: a failed read is followed at once by the read of the next scanned
\* file; the unreadable file gets no inference request and no save call, it
\* is in no stored document and no index; and a run that stops before the
\* files after it were read was stopped by an uncaught error of a later
\* write, never by the failed read.
UnreadableSkipped ==
    \A k \in 1..Len(reads) :
        /\ reads[k].path = file_paths[k]
        /\ ~reads[k].ok =>
              /\ FileLog(reads[k].path) = <<>>
              /\ FileSaves(reads[k].path) = <<>>
              /\ \A d \in DOMAIN storage : storage[d].title # reads[k].path
              /\ \A w \in 1..Len(index_writes) :
                    \A i \in 1..Len(index_writes[w].entries) :
                        index_writes[w].entries[i][1] # reads[k].path
              /\ (k = Len(reads) /\ k < Len(file_paths)) =>
                    /\ status = "running"
                    /\ pc \in {"read", "phase1"}
                    /\ fi = k + 1
              /\ \A j \in (k + 1)..Len(file_paths) :
                    \/ Len(reads) >= j
                    \/ status = "running"
                    \/ status = "uncaught_oserror"

\* the first file could not be read; the second was read, documented,
\* stored, and is the only entry of the index
UnreadableSkippedWitness ==
    /\ status = "completed"
    /\ Len(reads) = 2
    /\ ~reads[1].ok
    /\ reads[2].ok
    /\ FileLog(reads[2].path) # <<>>
    /\ Len(index_writes) = 1
    /\ Len(index_writes[1].entries) = 1
    /\ index_writes[1].entries[1][1] = reads[2].path

IndexWrittenLast ==
    /\ Len(IndexSaves) <= 1
    /\ Len(index_writes) <= 1
    /\ index_writes # <<>> => (IndexSaves # <<>> /\ IndexSaves[1].outcome = "ok")
    /\ IndexSaves # <<>> =>
          /\ pc = "done"
          /\ saves[Len(saves)].rel = <<>>
          /\ Len(reads) = Len(file_paths)
          /\ \A k \in 1..Len(reads) :
                reads[k].ok =>
                    /\ RequestsComplete(FileLog(reads[k].path))
                    /\ Len(FileSaves(reads[k].path)) = 1

\* two documents were saved, then the index
IndexWrittenLastWitness ==
    /\ Len(index_writes) = 1
    /\ Len(saves) = 3
    /\ saves[1].outcome = "ok"
    /\ saves[2].outcome = "ok"
    /\ Len(storage[saves[1].target].sections) > 1

\* C16: in DeepDocumentation nothing is chunked; the requests of a file are
\* a prefix of summary, components, examples, each carrying the whole text
\* of the file and no part annotation; a file that reached its save call
\* has had exactly the three; and its document, as assembled and as stored,
\* has the sections Overall Summary, Properties/Variables/Functions,
\* Examples in that order, section k holding what request k returned,
\* failure text or not.
ThreeFacetsWholeFile ==
    task = DeepDocumentation =>
        /\ chunks = <<>>
        /\ \A q \in Paths :
              LET requests == FileLog(q)
              IN  /\ Len(requests) <= 3
                  /\ \A i \in 1..Len(requests) :
                        /\ requests[i].prompt.kind =
                              <<"summary", "components", "examples">>[i]
                        /\ requests[i].prompt.part = <<>>
                        /\ requests[i].prompt.text = requests[1].prompt.text
                  /\ FileSaves(q) # <<>> => Len(requests) = 3
        /\ (pc \in {"facet", "save"} /\ status = "running") =>
              /\ Len(FileLog(content.path)) = Len(full_doc.sections)
              /\ \A i \in 1..Len(FileLog(content.path)) :
                    FileLog(content.path)[i].prompt.text = content.text
        /\ pc = "save" => Len(full_doc.sections) = 3
        /\ \A doc \in {storage[d] : d \in DOMAIN storage}
                          \cup (IF pc \in {"facet", "save"} THEN {full_doc} ELSE {}) :
              /\ Len(doc.sections) <= 3
              /\ \A i \in 1..Len(doc.sections) :
                    /\ doc.sections[i].name =
                          <<"Overall Summary",
                            "Properties, Variables, and Functions",
                            "Examples on How to Use the Code">>[i]
                    /\ doc.sections[i].body = FileLog(doc.title)[i].result

\* a file longer than the chunk budget, its second request failed, its
\* third succeeded
ThreeFacetsWitness ==
    /\ task = DeepDocumentation
    /\ pc = "save"
    /\ Len(content.text) > chunk_size
    /\ full_doc.sections[1].body.head = "response"
    /\ full_doc.sections[2].body.head = UnexpectedMarker
    /\ full_doc.sections[3].body.head = "response"

\* one line of the file list: "- {path} ({language tag})"
ListedLine(path) ==
    <<45, 32>> \o path \o <<32, 40>> \o get_file_type(splitext(path)[2]) \o <<41>>

RECURSIVE ListedLines(_)
ListedLines(entries) ==
    IF entries = <<>> THEN <<>>
    ELSE ListedLine(Head(entries)[1])
            \o (IF Len(entries) > 1 THEN <<LF>> ELSE <<>>)
            \o ListedLines(Tail(entries))

\* C17: the variable part of the project-summary prompt is the list of
\* "- path (language)" lines of the persisted files in index order: a value
\* fixed by the scanned paths and by which of them were persisted, in which
\* no file content takes part.
SummaryPromptFromPaths ==
    \A k \in 1..Len(log) :
        log[k].rel = <<>> =>
            /\ log[k].prompt.kind = "overall"
            /\ log[k].prompt.text = ListedLines(SortedByKey(PersistedInScanOrder))
            /\ log[k].prompt.file_name = <<>>
            /\ log[k].prompt.file_type = <<>>
            /\ log[k].prompt.part = <<>>

\* the summary was requested for two persisted files of different,
\* non-empty contents
SummaryPromptWitness ==
    /\ SummaryLog # <<>>
    /\ Len(all_file_contents) = 2
    /\ Cardinality(PersistedPaths) = 2
    /\ all_file_contents[1].text # <<>>
    /\ all_file_contents[2].text # <<>>
    /\ all_file_contents[1].text # all_file_contents[2].text

\* ------------------------------------------------------ inference client
\* C18 as stated: an unreachable endpoint gives the connection-failure
\* text; every status outside 200..299 gives the protocol-failure text with
\* the raw response body; a 2xx reply without a usable response field gives
\* the unexpected-failure text with the exception message; and the model's
\* response text is returned only for a 2xx reply that carries one.
FailureTaxonomy ==
    kpc = "returned" =>
        /\ ~kResult.raised
        /\ ~kReply.reachable =>
              kResult.head = ConnectionMarker
        /\ (kReply.reachable /\ kReply.status_code \notin 200..299) =>
              /\ kResult.head = ProtocolMarker
              /\ kResult.body = ResponseText(kReply)
        /\ (kReply.reachable /\ kReply.status_code \in 200..299
                /\ kReply.shape # "response") =>
              /\ kResult.head = UnexpectedMarker
              /\ kResult.body = ExceptionText(kReply)
        /\ kResult.head = "response" <=>
              /\ kReply.reachable
              /\ kReply.status_code \in 200..299
              /\ kReply.shape = "response"

\* ---------------------------------------------------------------- prompts
MaxPart == 3

\* the part annotations "(Part i of n)" that occur in a text
PartAnnotationsIn(s) ==
    {part \in (1..MaxPart) \X (1..MaxPart) : Contains(s, PartInfo(part))}

\* C19 as stated: the Documentation prompt of chunk i of n > 1 chunks
\* contains "(Part i of n)", and the prompt of a file documented in one call
\* contains no part annotation.
PartAnnotationOnlyWhenSplit ==
    \A k \in 1..Len(log) :
        (task = Documentation /\ log[k].rel # <<>>) =>
            LET part == log[k].prompt.part
                found == PartAnnotationsIn(PromptPartLine(PartInfo(part)))
            IN  IF part = <<>> THEN found = {} ELSE part \in found

\* ------------------------------------------------------- chunk boundaries
\* C20: no chunk is empty; within a chunk every line after the first was
\* appended because the buffer with that line was still within the budget,
\* exactly at the budget included; and each chunk was closed because its
\* length plus the length of the next line, the first line of the next
\* chunk, exceeded the budget.
CloseExactlyWhenOver ==
    cpc \in {"one", "two"} =>
        /\ \A i \in 1..Len(cChunks) :
              /\ cChunks[i] # <<>>
              /\ \A j \in 2..Len(splitlines(cChunks[i])) :
                    Len(Join(SubSeq(splitlines(cChunks[i]), 1, j))) <= cBudget
        /\ \A i \in 1..(Len(cChunks) - 1) :
              Len(cChunks[i]) + Len(splitlines(cChunks[i + 1])[1]) > cBudget

\* a chunk of two lines that fills the budget exactly, followed by another
\* chunk
ExactFitWitness ==
    /\ cpc = "one"
    /\ \E i \in 1..(Len(cChunks) - 1) :
          /\ Len(cChunks[i]) = cBudget
          /\ Len(splitlines(cChunks[i])) >= 2

\* --------------------------------------------------------- storage paths
\* C21 as stated: the documents of two different source files of a run are
\* saved to different paths, and every entry of a persisted index links to
\* a stored document that is the document of the entry's own source file.
DistinctDocumentPaths ==
    /\ \A j, k \in 1..Len(saves) :
          (saves[j].rel # <<>> /\ saves[k].rel # <<>> /\ saves[j].rel # saves[k].rel) =>
              saves[j].target # saves[k].target
    /\ \A w \in 1..Len(index_writes) :
          \A i \in 1..Len(index_writes[w].entries) :
              /\ index_writes[w].entries[i][2] \in DOMAIN storage
              /\ storage[index_writes[w].entries[i][2]].title =
                    index_writes[w].entries[i][1]

\* ---------------------------------------------------------------- web UI
\* C22 as stated: a click with a valid upload and one of the three button
\* actions launches a command whose script is a file of the repository and
\* runs the pipeline of that action; any other action value launches
\* nothing.
ActionsLaunchExistingScripts ==
    \A k \in 1..Len(uHistory) :
        /\ uHistory[k].action \notin ButtonActions => uHistory[k].launched = <<>>
        /\ uHistory[k].launched # <<>> =>
              /\ uHistory[k].launched[2] \in RepositoryFiles
              /\ ScriptTask(uHistory[k].launched[2]) =
                    (IF uHistory[k].action = "Code Documentation" THEN Documentation
                     ELSE IF uHistory[k].action = "Deep Code Documentation"
                          THEN DeepDocumentation
                          ELSE Analysis)
====
